---- MODULE Spec2Model ----
(***************************************************************************)
(* Model of Generic_webscrape/bbc_scraper.py: the link collector           *)
(* (scrape_category_to_csv), the article extractor                         *)
(* (scrape_article_metadata), the driver loop (process_csv_to_json) and    *)
(* the __main__ sequence.                                                  *)
(*                                                                         *)
(* Text that the code processes character by character (stripping, regex   *)
(* search, sanitising, truncation, joining) is a sequence of one-character *)
(* strings.  Attribute values the code only copies are plain strings.      *)
(***************************************************************************)
EXTENDS Integers, Sequences, FiniteSets, TLC

VARIABLES pc, csv0, csvFile, ret, indexResp, articles, idx, clock, outFiles,
          gets, log, xpc, xdoc, xdoc0, xprev, xmeta

vars == <<pc, csv0, csvFile, ret, indexResp, articles, idx, clock, outFiles,
          gets, log, xpc, xdoc, xdoc0, xprev, xmeta>>

pipeVars == <<pc, csv0, csvFile, ret, indexResp, articles, idx, clock,
              outFiles, gets, log>>

extractVars == <<xpc, xdoc, xdoc0, xprev, xmeta>>

\* ------------------------------------------------------------------ bounds

\* Longest index page (number of anchors) the model enumerates.
MaxAnchors == 3

\* Longest article document (number of elements) the model enumerates.
MaxNodes == 3

\* ------------------------------------------------------- generic helpers

Min(a, b) == IF a < b THEN a ELSE b

Range(s) == {s[i] : i \in 1..Len(s)}

SeqsUpTo(S, n) == UNION {[1..k -> S] : k \in 0..n}

RECURSIVE Rep(_, _)
Rep(c, n) == IF n = 0 THEN <<>> ELSE <<c>> \o Rep(c, n - 1)

RECURSIVE Flatten(_)
Flatten(ss) == IF ss = <<>> THEN <<>> ELSE Head(ss) \o Flatten(Tail(ss))

\* sep.join(parts)
RECURSIVE Join(_, _)
Join(sep, parts) ==
    IF parts = <<>> THEN <<>>
    ELSE IF Len(parts) = 1 THEN Head(parts)
    ELSE Head(parts) \o sep \o Join(sep, Tail(parts))

\* --------------------------------------------------------- character text

Whitespace == {" ", "\t", "\n"}

LowerCase == {"a","b","c","d","e","f","g","h","i","j","k","l","m",
              "n","o","p","q","r","s","t","u","v","w","x","y","z"}

UpperCase == {"A","B","C","D","E","F","G","H","I","J","K","L","M",
              "N","O","P","Q","R","S","T","U","V","W","X","Y","Z"}

Digits == {"0","1","2","3","4","5","6","7","8","9"}

LowerMap ==
    ("A" :> "a") @@ ("B" :> "b") @@ ("C" :> "c") @@ ("D" :> "d") @@
    ("E" :> "e") @@ ("F" :> "f") @@ ("G" :> "g") @@ ("H" :> "h") @@
    ("I" :> "i") @@ ("J" :> "j") @@ ("K" :> "k") @@ ("L" :> "l") @@
    ("M" :> "m") @@ ("N" :> "n") @@ ("O" :> "o") @@ ("P" :> "p") @@
    ("Q" :> "q") @@ ("R" :> "r") @@ ("S" :> "s") @@ ("T" :> "t") @@
    ("U" :> "u") @@ ("V" :> "v") @@ ("W" :> "w") @@ ("X" :> "x") @@
    ("Y" :> "y") @@ ("Z" :> "z")

\* re.IGNORECASE: both sides compared in lower case
Lower(s) == [i \in 1..Len(s) |-> IF s[i] \in UpperCase THEN LowerMap[s[i]] ELSE s[i]]

\* regex search of a literal: the pattern occurs somewhere in s
ContainsSub(s, pat) ==
    \E i \in 1..(Len(s) - Len(pat) + 1) : SubSeq(s, i, i + Len(pat) - 1) = pat

\* str.strip() as applied by get_text(strip=True) to one text node
RECURSIVE LStrip(_)
LStrip(s) ==
    IF s # <<>> /\ Head(s) \in Whitespace THEN LStrip(Tail(s)) ELSE s

RECURSIVE RStrip(_)
RStrip(s) ==
    IF s # <<>> /\ s[Len(s)] \in Whitespace
    THEN RStrip(SubSeq(s, 1, Len(s) - 1)) ELSE s

Strip(s) == RStrip(LStrip(s))

\* ------------------------------------------------------ the parsed document

(* A parsed page is its elements in document order.  An element carries its
   tag, its parent container grp (elements with the same grp are siblings),
   one attribute attr, whether it has a content attribute (has) and that
   attribute's value, its own text node (<<>> if none), and the text nodes of
   the <p> descendants (of a main) or <a> descendants (of a ul) in items.   *)
El(tag, grp, attr, has, content, text, items) ==
    [tag |-> tag, grp |-> grp, attr |-> attr, has |-> has,
     content |-> content, text |-> text, items |-> items]

\* index of the first element of doc satisfying P, 0 if none: soup.find
FindFirst(doc, P(_)) ==
    IF \E i \in 1..Len(doc) : P(doc[i])
    THEN CHOOSE i \in 1..Len(doc) : P(doc[i]) /\ \A k \in 1..(i - 1) : ~P(doc[k])
    ELSE 0

TitleNotFound == <<"T","i","t","l","e"," ","n","o","t"," ","f","o","u","n","d">>
SummaryNotFound == "Summary not found"
PublishDateNotFound == <<"P","u","b","l","i","s","h"," ","d","a","t","e"," ","n","o","t"," ","f","o","u","n","d">>
ImageNotFound == "Image not found"
ArticleContentNotFound == <<"A","r","t","i","c","l","e"," ","c","o","n","t","e","n","t"," ","n","o","t"," ","f","o","u","n","d",".">>
ImageCreditNotFound == <<"I","m","a","g","e"," ","c","r","e","d","i","t"," ","n","o","t"," ","f","o","u","n","d">>
RelatedTopics == <<"R","e","l","a","t","e","d"," ","T","o","p","i","c","s">>

\* title = soup.find('h1').get_text(strip=True) if soup.find('h1') else ...
IsH1(e) == e.tag = "h1"
TitleRule(doc) ==
    LET i == FindFirst(doc, IsH1)
    IN IF i = 0 THEN TitleNotFound ELSE Strip(doc[i].text)

\* soup.find('meta', {...}) then tag['content']: KeyError if the attribute
\* is missing on the first matching tag
IsDescription(e) == e.tag = "meta" /\ e.attr = "name=description"
SummaryRaises(doc) ==
    LET i == FindFirst(doc, IsDescription) IN i # 0 /\ ~doc[i].has
SummaryRule(doc) ==
    LET i == FindFirst(doc, IsDescription)
    IN IF i = 0 THEN SummaryNotFound ELSE doc[i].content

\* variant: the time element is looked for after the level-1 heading only
PublishDateAfterHeading(doc) ==
    IF \E i, j \in 1..Len(doc) : i < j /\ doc[i].tag = "h1" /\ doc[j].tag = "time"
    THEN LET j == CHOOSE j \in 1..Len(doc) :
                     /\ doc[j].tag = "time"
                     /\ \E i \in 1..(j - 1) : doc[i].tag = "h1"
                     /\ \A k \in 1..(j - 1) :
                           ~(doc[k].tag = "time" /\ \E i \in 1..(k - 1) : doc[i].tag = "h1")
         IN Strip(doc[j].text)
    ELSE PublishDateNotFound

IsTime(e) == e.tag = "time"
PublishDateRule(doc) ==
    LET i == FindFirst(doc, IsTime)
    IN IF i = 0 THEN PublishDateNotFound ELSE Strip(doc[i].text)

IsOgImage(e) == e.tag = "meta" /\ e.attr = "property=og:image"
ImageRaises(doc) ==
    LET i == FindFirst(doc, IsOgImage) IN i # 0 /\ ~doc[i].has
ImageRule(doc) ==
    LET i == FindFirst(doc, IsOgImage)
    IN IF i = 0 THEN ImageNotFound ELSE doc[i].content

\* soup.find('main', {'id': 'main-content'}), find_all('p', recursive=True),
\* "\n".join of the stripped non-empty paragraph texts
IsMainContent(e) == e.tag = "main" /\ e.attr = "id=main-content"
NonEmpty(s) == s # <<>>
StripAll(items) == [k \in 1..Len(items) |-> Strip(items[k])]
ContentRule(doc) ==
    LET i == FindFirst(doc, IsMainContent)
    IN IF i = 0 THEN ArticleContentNotFound
       ELSE Join(<<"\n">>, SelectSeq(StripAll(doc[i].items), NonEmpty))

\* re.compile(r'Image (source|credit)', re.IGNORECASE) searched in a string
MatchesCredit(s) ==
    \/ ContainsSub(Lower(s), <<"i","m","a","g","e"," ","s","o","u","r","c","e">>)
    \/ ContainsSub(Lower(s), <<"i","m","a","g","e"," ","c","r","e","d","i","t">>)

\* every text node of the document, in document order
NodeTexts(e) == (IF e.text = <<>> THEN <<>> ELSE <<e.text>>) \o e.items
TextNodes(doc) == Flatten([i \in 1..Len(doc) |-> NodeTexts(doc[i])])

\* soup.find(string=regex), then credit_tag.parent.get_text(strip=True)
CreditRule(doc) ==
    LET nodes == TextNodes(doc)
        i == FindFirst(nodes, MatchesCredit)
    IN IF i = 0 THEN ImageCreditNotFound ELSE Strip(nodes[i])

\* soup.find('h2', string='Related Topics'), find_next_sibling('ul'),
\* text of every <a> in it; stored as ", ".join(tags)
IsTagsHeading(e) == e.tag = "h2" /\ e.text = RelatedTopics
\* variant: find_next('ul') in place of find_next_sibling('ul')
NextUl(doc, i) ==
    IF \E j \in (i + 1)..Len(doc) : doc[j].tag = "ul"
    THEN CHOOSE j \in (i + 1)..Len(doc) :
            doc[j].tag = "ul" /\ \A k \in (i + 1)..(j - 1) : doc[k].tag # "ul"
    ELSE 0

NextSiblingUl(doc, i) ==
    IF \E j \in (i + 1)..Len(doc) : doc[j].tag = "ul" /\ doc[j].grp = doc[i].grp
    THEN CHOOSE j \in (i + 1)..Len(doc) :
            /\ doc[j].tag = "ul" /\ doc[j].grp = doc[i].grp
            /\ \A k \in (i + 1)..(j - 1) :
                  ~(doc[k].tag = "ul" /\ doc[k].grp = doc[i].grp)
    ELSE 0
TagsList(doc) ==
    LET i == FindFirst(doc, IsTagsHeading)
    IN IF i = 0 THEN <<>>
       ELSE LET j == NextSiblingUl(doc, i)
            IN IF j = 0 THEN <<>> ELSE StripAll(doc[j].items)
TagsRule(doc) == Join(<<",", " ">>, TagsList(doc))

\* The outcome of requests.get + raise_for_status: ok is FALSE when a
\* requests.RequestException was raised (transport error, timeout, non-2xx),
\* otherwise body is the parsed response text.
FetchFail == [ok |-> FALSE, body |-> <<>>]
FetchOk(body) == [ok |-> TRUE, body |-> body]

\* scrape_article_metadata on the outcome of its GET: None on a failed
\* fetch, an uncaught KeyError if a subscripted meta tag has no content
\* attribute, otherwise the seven-field record
scrape_article_metadata(resp) ==
    IF ~resp.ok THEN [kind |-> "None"]
    ELSE IF SummaryRaises(resp.body) \/ ImageRaises(resp.body)
    THEN [kind |-> "KeyError"]
    ELSE [kind |-> "metadata",
          title |-> TitleRule(resp.body),
          summary |-> SummaryRule(resp.body),
          publish_date |-> PublishDateRule(resp.body),
          article_image |-> ImageRule(resp.body),
          article_content |-> ContentRule(resp.body),
          image_credit |-> CreditRule(resp.body),
          tags |-> TagsRule(resp.body)]

\* ------------------------------------------------------------ URLs, links

(* An absolute URL is a host (its labels) and a path (its segments).  An
   href is absolute ("abs"), rooted ("root", starts with "/"), relative
   ("rel") or missing ("none").                                            *)
Url(host, path) == [host |-> host, path |-> path]
Href(kind, host, path) == [kind |-> kind, host |-> host, path |-> path]

\* urllib.parse.urljoin(base, ref)
urljoin(base, ref) ==
    IF ref.kind = "abs" THEN Url(ref.host, ref.path)
    ELSE IF ref.kind = "root" THEN Url(base.host, ref.path)
    ELSE Url(base.host,
             SubSeq(base.path, 1, Len(base.path) - 1) \o ref.path)

\* the attribute selector a[href*="/article/"]: the href exists and holds
\* the substring "/article/" (a segment "article" with a slash on both sides)
MatchesSelector(h) ==
    /\ h.kind # "none"
    /\ \E i \in 1..(Len(h.path) - 1) :
          h.path[i] = "article" /\ (h.kind # "rel" \/ i > 1)

\* soup.select('a[href*="/article/"]')
article_links(page) == SelectSeq(page, MatchesSelector)

Header == <<"website", "category", "article_url">>

\* what is found at a path: no file, or a file holding rows
NoFile == [exists |-> FALSE, rows |-> <<>>]
File(rows) == [exists |-> TRUE, rows |-> rows]

\* variant: seen_urls remembers the href as written, not the resolved URL
RECURSIVE WriteRowsSeenHref(_, _, _, _)
WriteRowsSeenHref(base_url, category, links, seen_urls) ==
    IF links = <<>> THEN <<>>
    ELSE IF Head(links) \notin seen_urls
         THEN <<<<base_url, category, urljoin(base_url, Head(links))>>>>
              \o WriteRowsSeenHref(base_url, category, Tail(links),
                                   seen_urls \cup {Head(links)})
         ELSE WriteRowsSeenHref(base_url, category, Tail(links), seen_urls)

\* lines 48-55: one row per link whose resolved URL is not in seen_urls
RECURSIVE WriteRows(_, _, _, _)
WriteRows(base_url, category, links, seen_urls) ==
    IF links = <<>> THEN <<>>
    ELSE LET full_url == urljoin(base_url, Head(links))
         IN IF full_url \notin seen_urls
            THEN <<<<base_url, category, full_url>>>>
                 \o WriteRows(base_url, category, Tail(links),
                              seen_urls \cup {full_url})
            ELSE WriteRows(base_url, category, Tail(links), seen_urls)

\* scrape_category_to_csv on the outcome resp of its GET and the file found
\* at csv_name: the value returned and the file left at csv_name
scrape_category_to_csv(base_url, category, file, resp) ==
    IF ~resp.ok THEN [ret |-> "None", file |-> file]
    ELSE IF article_links(resp.body) = <<>> THEN [ret |-> "None", file |-> file]
    ELSE [ret |-> "None",
          file |-> File(<<Header>>
                        \o WriteRows(base_url, category,
                                      article_links(resp.body), {}))]

\* csv.DictReader + list(): every row after the first, keyed by the first
DictReader(rows) ==
    [k \in 1..(Len(rows) - 1) |->
        [h \in Range(rows[1]) |->
            rows[k + 1][CHOOSE c \in 1..Len(rows[1]) : rows[1][c] = h]]]

\* ------------------------------------------------------------ output files

TitleCut == 50

WordChars == LowerCase \cup UpperCase \cup Digits \cup {"_"}

\* re.sub(r'[^\w-]', '_', title)[:50]
safe_title(title) ==
    LET sub == [i \in 1..Len(title) |->
                  IF title[i] \in WordChars \/ title[i] = "-"
                  THEN title[i] ELSE "_"]
    IN SubSeq(sub, 1, Min(Len(sub), TitleCut))

\* base_url.replace('https://','').replace('www.','').split('/')[0]
\*         .replace('.','_'): the host labels without "www"
IsNotWww(l) == l # "www"
website_name(base_url) == SelectSeq(base_url.host, IsNotWww)

\* f"{website_name}_{category}_{safe_title}_{timestamp}.json"
filename(site, category, title, timestamp) ==
    [site |-> site, category |-> category, title |-> safe_title(title),
     timestamp |-> timestamp]

\* open(filepath, 'w') + json.dump: the file of that name is replaced
WriteFile(files, name, data) ==
    {f \in files : f.name # name} \cup {[name |-> name, data |-> data]}

\* ------------------------------------------------- inputs the model draws

\* --base_url https://www.example.com --category culture
base_url == Url(<<"www", "example", "com">>, <<>>)
category == "culture"
category_url == urljoin(base_url, Href("rel", <<>>, <<category>>))

hRel == Href("rel", <<>>, <<"article", "c">>)
hA == Href("root", <<>>, <<"article", "a">>)
hAabs == Href("abs", <<"www", "example", "com">>, <<"article", "a">>)
hB == Href("rel", <<>>, <<"culture", "article", "b">>)
Hrefs == {hRel, hA, hAabs, hB}

\* the index GET fails, or returns a page of up to MaxAnchors anchors
IndexResponses == {FetchFail} \cup {FetchOk(p) : p \in SeqsUpTo(Hrefs, MaxAnchors)}

\* the file at csv_name before the run: none, or the handoff of an earlier run
StaleFile ==
    File(<<Header, <<base_url, category, Url(base_url.host, <<"article", "old">>)>>>>)
PriorFiles == {NoFile, StaleFile}

tHi == <<"H","i","!">>
tLong == Rep("x", TitleCut) \o <<"!">>
tSource == <<"I","m","a","g","e"," ","s","o","u","r","c","e",":"," ","A","P">>
tCredit == <<" ","I","M","A","G","E"," ","C","r","e","d","i","t",","," ","P","A">>
tDate == <<" ","1"," ","J","a","n"," ">>
tPara == <<" ","P","a","r","a"," ","1">>
tBlank == <<" ">>
tPadded == <<" ","R","e","l","a","t","e","d"," ","T","o","p","i","c","s">>
tBiz == <<"B","u","s","i","n","e","s","s"," ">>
tMkt == <<"M","a","r","k","e","t","s">>

eH1 == El("h1", 0, "", FALSE, "", tHi, <<>>)
eH1Long == El("h1", 0, "", FALSE, "", tLong, <<>>)
eH1Source == El("h1", 0, "", FALSE, "", tSource, <<>>)
eDesc == El("meta", 0, "name=description", TRUE, "A summary", <<>>, <<>>)
eDescBare == El("meta", 0, "name=description", FALSE, "", <<>>, <<>>)
eImg == El("meta", 0, "property=og:image", TRUE, "a.jpg", <<>>, <<>>)
eImgBare == El("meta", 0, "property=og:image", FALSE, "", <<>>, <<>>)
eTime == El("time", 0, "", FALSE, "", tDate, <<>>)
eMain == El("main", 0, "id=main-content", FALSE, "", <<>>, <<tPara, tBlank, tBiz>>)
eMainBlank == El("main", 0, "id=main-content", FALSE, "", <<>>, <<tBlank>>)
eMainOther == El("main", 0, "id=other", FALSE, "", <<>>, <<tPara>>)
eSpan == El("span", 0, "", FALSE, "", tCredit, <<>>)
eH2 == El("h2", 0, "", FALSE, "", RelatedTopics, <<>>)
eH2Inner == El("h2", 1, "", FALSE, "", RelatedTopics, <<>>)
eH2Padded == El("h2", 0, "", FALSE, "", tPadded, <<>>)
eUl == El("ul", 0, "", FALSE, "", <<>>, <<tBiz, tMkt>>)
eUlInner == El("ul", 1, "", FALSE, "", <<>>, <<tMkt>>)

Elements == {eH1, eH1Source, eDesc, eDescBare, eImg, eImgBare, eTime, eMain,
             eMainBlank, eMainOther, eSpan, eH2, eH2Inner, eH2Padded, eUl,
             eUlInner}

\* the children of one container are contiguous in document order
WellFormed(doc) ==
    \A i, j \in 1..Len(doc) :
        i < j /\ doc[i].grp = 1 /\ doc[j].grp = 1 =>
            \A k \in i..j : doc[k].grp = 1

\* the documents the extractor is applied to
Docs == {d \in SeqsUpTo(Elements, MaxNodes) : WellFormed(d)}

\* the pages an article GET of the pipeline returns
PipelineDocs == {<<eH1, eDesc>>, <<eTime>>, <<eH1Long>>, <<eH1, eDescBare>>}
ArticleResponses == {FetchFail} \cup {FetchOk(d) : d \in PipelineDocs}

Nothing == [kind |-> "nothing"]

\* ------------------------------------------------------------ the pipeline

Init ==
    /\ pc = "main"
    /\ csv0 \in PriorFiles
    /\ csvFile = csv0
    /\ ret = "unset"
    /\ indexResp = FetchFail
    /\ articles = <<>>
    /\ idx = 0
    /\ clock = 0
    /\ outFiles = {}
    /\ gets = <<>>
    /\ log = <<>>
    /\ xpc = "off"
    /\ xdoc = <<>>
    /\ xdoc0 = <<>>
    /\ xprev = Nothing
    /\ xmeta = Nothing

\* __main__ line 169: scrape_category_to_csv(base_url, category, csv_name)
ScrapeCategory ==
    /\ pc = "main"
    /\ \E resp \in IndexResponses :
          LET r == scrape_category_to_csv(base_url, category, csvFile, resp)
          IN /\ gets' = Append(gets, category_url)
             /\ indexResp' = resp
             /\ ret' = r.ret
             /\ csvFile' = r.file
    /\ pc' = "process"
    /\ UNCHANGED <<csv0, articles, idx, clock, outFiles, log, extractVars>>

\* process_csv_to_json lines 131-137: the file is missing, return
CsvNotFound ==
    /\ pc = "process"
    /\ ~csvFile.exists
    /\ pc' = "done"
    /\ UNCHANGED <<csv0, csvFile, ret, indexResp, articles, idx, clock,
                   outFiles, gets, log, extractVars>>

\* process_csv_to_json lines 131-143: read the rows of the file
LoadCsv ==
    /\ pc = "process"
    /\ csvFile.exists
    /\ articles' = DictReader(csvFile.rows)
    /\ idx' = 1
    /\ pc' = "loop"
    /\ UNCHANGED <<csv0, csvFile, ret, indexResp, clock, outFiles, gets, log,
                   extractVars>>

\* process_csv_to_json lines 145-159: one iteration of the loop.  The clock
\* may pass a second boundary while the article is fetched.
ProcessArticle ==
    /\ pc = "loop"
    /\ idx <= Len(articles)
    /\ \E resp \in ArticleResponses, tick \in {0, 1} :
          LET article_url == articles[idx]["article_url"]
              metadata == scrape_article_metadata(resp)
              name == filename(website_name(base_url), category,
                               metadata.title, clock + tick)
          IN /\ gets' = Append(gets, article_url)
             /\ clock' = clock + tick
             /\ IF metadata.kind = "KeyError"
                THEN /\ pc' = "crashed"
                     /\ idx' = idx
                     /\ outFiles' = outFiles
                     /\ log' = Append(log, [url |-> article_url, ok |-> resp.ok,
                                            saved |-> FALSE, name |-> Nothing])
                ELSE IF metadata.kind = "None"
                THEN /\ pc' = "loop"
                     /\ idx' = idx + 1
                     /\ outFiles' = outFiles
                     /\ log' = Append(log, [url |-> article_url, ok |-> resp.ok,
                                            saved |-> FALSE, name |-> Nothing])
                ELSE /\ pc' = "loop"
                     /\ idx' = idx + 1
                     /\ outFiles' = WriteFile(outFiles, name, metadata)
                     /\ log' = Append(log, [url |-> article_url, ok |-> resp.ok,
                                            saved |-> TRUE, name |-> name])
    /\ UNCHANGED <<csv0, csvFile, ret, indexResp, articles, extractVars>>

\* the loop is exhausted; __main__ line 174
Finish ==
    /\ pc = "loop"
    /\ idx > Len(articles)
    /\ pc' = "done"
    /\ UNCHANGED <<csv0, csvFile, ret, indexResp, articles, idx, clock,
                   outFiles, gets, log, extractVars>>

Next == ScrapeCategory \/ CsvNotFound \/ LoadCsv \/ ProcessArticle \/ Finish

Spec == Init /\ [][Next]_vars

\* ----------------------------------------------- the extractor on its own

ExtractInit ==
    /\ pc = "off"
    /\ csv0 = NoFile
    /\ csvFile = NoFile
    /\ ret = "unset"
    /\ indexResp = FetchFail
    /\ articles = <<>>
    /\ idx = 0
    /\ clock = 0
    /\ outFiles = {}
    /\ gets = <<>>
    /\ log = <<>>
    /\ xpc = "ready"
    /\ xdoc \in Docs
    /\ xdoc0 = xdoc
    /\ xprev = Nothing
    /\ xmeta = Nothing

\* scrape_article_metadata lines 75-124 on a fetched document
Extract ==
    /\ xpc = "ready"
    /\ xmeta' = scrape_article_metadata(FetchOk(xdoc))
    /\ xpc' = "done"
    /\ UNCHANGED <<xdoc, xdoc0, xprev, pipeVars>>

IsNotH1(e) == ~IsH1(e)

\* the same document without its level-1 heading, to be extracted next
DropHeading ==
    /\ xpc = "done"
    /\ xprev = Nothing
    /\ xmeta.kind = "metadata"
    /\ \E i \in 1..Len(xdoc) : IsH1(xdoc[i])
    /\ xprev' = xmeta
    /\ xdoc' = SelectSeq(xdoc, IsNotH1)
    /\ xmeta' = Nothing
    /\ xpc' = "ready"
    /\ UNCHANGED <<xdoc0, pipeVars>>

ExtractNext == Extract \/ DropHeading

ExtractSpec == ExtractInit /\ [][ExtractNext]_vars

\* ------------------------------------------------------------- properties

Terminal == {"done", "crashed"}

\* the hrefs the selector matched on the index page of this run
Matched == IF indexResp.ok THEN article_links(indexResp.body) ELSE <<>>

\* the matched hrefs, resolved against base_url
Resolved == [i \in 1..Len(Matched) |-> urljoin(base_url, Matched[i])]

\* the collector has run, fetched the page and matched at least one anchor
Collected == pc # "main" /\ indexResp.ok /\ Matched # <<>>

\* position of the first occurrence of u in s
FirstIndex(s, u) == CHOOSE i \in 1..Len(s) : s[i] = u /\ \A k \in 1..(i - 1) : s[k] # u

\* C1: when the run has ended, every article whose fetch failed has no
\* output file, every later article was still fetched and, if its fetch
\* succeeded, persisted, and the run reached its end.
C1_FailureIsolation ==
    pc \in Terminal =>
        \A i \in 1..Len(articles) :
            (i <= Len(log) /\ ~log[i].ok) =>
                /\ ~log[i].saved
                /\ \A j \in (i + 1)..Len(articles) :
                      j <= Len(log) /\ (log[j].ok => log[j].saved)
                /\ pc = "done"

\* C2: when the index fetch succeeds and an anchor matches, the data rows of
\* the handoff file are the matched hrefs resolved against base_url, each
\* resolved URL once, in order of first occurrence, each row carrying
\* base_url and category.
C2_DedupFirstSeen ==
    Collected =>
        /\ csvFile.exists
        /\ Head(csvFile.rows) = Header
        /\ LET rows == Tail(csvFile.rows)
           IN /\ \A i \in 1..Len(rows) :
                    rows[i][1] = base_url /\ rows[i][2] = category
              /\ \A i, j \in 1..Len(rows) : i # j => rows[i][3] # rows[j][3]
              /\ {rows[i][3] : i \in 1..Len(rows)} = Range(Resolved)
              /\ Len(rows) = Cardinality(Range(Resolved))
              /\ \A i, j \in 1..Len(rows) :
                    i < j => FirstIndex(Resolved, rows[i][3])
                               < FirstIndex(Resolved, rows[j][3])

\* C2 witness: a page with a repeated resolved URL was collected into at
\* least two rows
C2_Witness ==
    /\ Collected
    /\ Len(csvFile.rows) >= 3
    /\ Len(Matched) > Len(csvFile.rows) - 1

\* C3: when the index GET failed, the run fetches no article and writes no
\* output file, whatever was at csv_name before.
C3_IndexFailureIsFatal ==
    (pc # "main" /\ ~indexResp.ok) =>
        /\ gets = <<category_url>>
        /\ outFiles = {}
        /\ articles = <<>>

\* C4: what the caller observes after a failed index fetch (the value
\* returned and the file at csv_name) differs from what it observes after a
\* fetched page without a matching anchor.
C4_FailureDistinguishable ==
    (pc # "main" /\ ~indexResp.ok) =>
        \A p \in SeqsUpTo(Hrefs, MaxAnchors) :
            article_links(p) = <<>> =>
                LET r == scrape_category_to_csv(base_url, category, csv0, FetchOk(p))
                IN <<ret, csvFile>> # <<r.ret, r.file>>

Fields == {"title", "summary", "publish_date", "article_image",
           "article_content", "image_credit", "tags"}

\* C5: for every fetched document the extractor returns a record holding
\* all seven fields; no rule raises.
C5_NoRuleRaises ==
    xpc = "done" =>
        /\ xmeta.kind = "metadata"
        /\ Fields \subseteq DOMAIN xmeta

\* C6: when the run has finished, it has written as many distinct output
\* files as articles were extracted.
C6_OneFilePerArticle ==
    pc = "done" =>
        Cardinality(outFiles) = Cardinality({i \in 1..Len(log) : log[i].saved})

TagHeadings == {i \in 1..Len(xdoc) : xdoc[i].tag = "h2" /\ xdoc[i].text = RelatedTopics}

\* positions of the sibling lists that follow position i
ListsAfter(i) ==
    {j \in (i + 1)..Len(xdoc) : xdoc[j].tag = "ul" /\ xdoc[j].grp = xdoc[i].grp}

SetMin(S) == CHOOSE m \in S : \A n \in S : m <= n

C9_OneGetPerLink ==
    (pc \in Terminal /\ Collected) =>
        gets = <<category_url>>
               \o [i \in 1..(Len(csvFile.rows) - 1) |-> csvFile.rows[i + 1][3]]

\* C10: every article URL the run fetches is a URL matched on the index
\* page in this run.
C10_FetchedWereMatched ==
    \A k \in 2..Len(gets) : gets[k] \in Range(Resolved)

====
